---- MODULE Spec2Model ----
(***************************************************************************)
(* Model of nerfstudio/process_data/opf_utils.py: the helpers that turn an *)
(* OPF project (camera list, calibrated cameras, sensors) into the         *)
(* dictionary written as transforms.json.                                   *)
(*                                                                         *)
(* Python values are modelled as follows.                                  *)
(*   list            a sequence                                            *)
(*   dict            a function whose domain is the set of its keys        *)
(*   float           an integer number of tenths (15 is 1.5), except for   *)
(*                   the positions numpy computes, which are exact         *)
(*                   fractions [n, d]                                      *)
(*   a call's outcome   [kind |-> "return", value |-> v] or                *)
(*                      [kind |-> "raise", error |-> e, ...]               *)
(***************************************************************************)
EXTENDS Integers, Sequences, FiniteSets, TLC

VARIABLES
    pc,                      \* position of the modelled call
    \* filter_cameras
    camera_list,             \* camera_list.cameras
    max_num_images,
    filter_ret,              \* outcome of filter_cameras
    \* extract_common_intrinsics
    intrinsics_list,         \* the records the argument list refers to
    intrinsics_before,       \* their content when the call was made
    common_ret,              \* outcome of extract_common_intrinsics
    permuted_list,           \* fresh copies of the records, reordered
    permuted_ret,            \* outcome of the call on permuted_list
    \* make_transforms
    camera_datas,
    calibrated_cameras,      \* calibrated_cameras.cameras
    sensor_id_to_intrinsics, \* insertion-ordered dict: sequence of [id, intrinsics]
    sensors_before,          \* its content when make_transforms was called
    next_camera,             \* index of the camera the for loop takes next
    frames,
    common_bound,            \* whether the local common_intrinsics is bound
    common_intrinsics,
    transforms_ret           \* outcome of make_transforms

filter_vars == <<camera_list, max_num_images, filter_ret>>
reducer_vars == <<intrinsics_list, intrinsics_before, common_ret, permuted_list, permuted_ret>>
transforms_vars == <<camera_datas, calibrated_cameras, sensor_id_to_intrinsics, sensors_before,
                     next_camera, frames, common_bound, common_intrinsics, transforms_ret>>
vars == <<pc, filter_vars, reducer_vars, transforms_vars>>

(***************************************************************************)
(* Bounds of the model and the input pools.                                *)
(***************************************************************************)
MaxCameraList == 4
MinMaxNumImages == 3
MaxRecords == 3
MaxCameraDatas == 2
MaxCalibrated == 2

Unbounded == -1

SeqsUpTo(S, n) == UNION {[1..k -> S] : k \in 0..n}

InjectiveSeqs(S) == {s \in SeqsUpTo(S, Cardinality(S)) : \A i, j \in 1..Len(s) : i # j => s[i] # s[j]}

(***************************************************************************)
(* Outcomes of a call.                                                     *)
(***************************************************************************)
Return(v) == [kind |-> "return", value |-> v]

Raise(e, what) == [kind |-> "raise", error |-> e, what |-> what]

NotCalled == [kind |-> "none"]

(***************************************************************************)
(* Python values used below.                                               *)
(***************************************************************************)
EmptyDict == [k \in {} |-> 0]

Restrict(d, keys) == [k \in (DOMAIN d) \cap keys |-> d[k]]

\* {**a, **b}: the keys of both, b's value where both have the key.
Merge(a, b) == [k \in (DOMAIN a) \cup (DOMAIN b) |-> IF k \in DOMAIN b THEN b[k] ELSE a[k]]

\* int(x) and ndarray.astype(int): truncation toward zero (x in tenths).
IntTrunc(x) == IF x >= 0 THEN x \div 10 ELSE -((-x) \div 10)

(***************************************************************************)
(* Cameras. A uri is modelled parsed: its scheme and its path component.   *)
(***************************************************************************)
PurePath(absolute, parts) == [absolute |-> absolute, parts |-> parts]

CameraData(id, scheme, path) == [id |-> id, uri |-> [scheme |-> scheme, path |-> path]]

CameraPool ==
    { CameraData(1, "", PurePath(FALSE, <<"images", "a.jpg">>)),
      CameraData(2, "file", PurePath(TRUE, <<"data", "b.jpg">>)),
      CameraData(3, "", PurePath(FALSE, <<"c.jpg">>)) }

(***************************************************************************)
(* filter_cameras                                                          *)
(***************************************************************************)
Fraction(n, d) == [n |-> n, d |-> d]

\* np.linspace(start, stop, num), endpoint included, as exact fractions.
Linspace(start, stop, num) ==
    IF num < 0 THEN Raise("ValueError", num)
    ELSE IF num = 0 THEN Return(<<>>)
    ELSE IF num = 1 THEN Return(<<Fraction(start, 1)>>)
    ELSE Return([i \in 1..num |-> Fraction(start * (num - 1) + (i - 1) * (stop - start), num - 1)])

\* np.round of one non-negative position: to the nearest integer, a half to
\* the even neighbour. The result is still a numpy.float64.
RoundHalfEven(x) ==
    LET q == x.n \div x.d
        r == x.n % x.d
    IN  IF 2 * r < x.d THEN q
        ELSE IF 2 * r > x.d THEN q + 1
        ELSE IF q % 2 = 0 THEN q ELSE q + 1

Float64(v) == [type |-> "float64", val |-> v]

NpRound(positions) == [i \in 1..Len(positions) |-> Float64(RoundHalfEven(positions[i]))]

\* list.__getitem__: a list index must be an int (an object with __index__);
\* numpy.float64 is a float and is refused.
ListGetItem(list, i) ==
    IF i.type # "int" THEN Raise("TypeError", i.type)
    ELSE IF i.val + 1 \in 1..Len(list) THEN Return(list[i.val + 1])
    ELSE Raise("IndexError", i.val)

\* [camera_list.cameras[i] for i in idx]: the first failing lookup ends it.
ListComprehension(list, idx) ==
    LET got == [j \in 1..Len(idx) |-> ListGetItem(list, idx[j])]
        failed == {j \in 1..Len(idx) : got[j].kind = "raise"}
    IN  IF failed = {} THEN Return([j \in 1..Len(idx) |-> got[j].value])
        ELSE got[CHOOSE j \in failed : \A k \in failed : j <= k]

FilterCameras(cameras, max_num) ==
    LET num_orig_images == Len(cameras) IN
    IF max_num # Unbounded /\ num_orig_images > max_num
    THEN LET positions == Linspace(0, num_orig_images - 1, max_num) IN
         IF positions.kind = "raise" THEN positions
         ELSE ListComprehension(cameras, NpRound(positions.value))
    ELSE Return(cameras)

(***************************************************************************)
(* extract_intrinsics                                                      *)
(***************************************************************************)
IntrinsicsKeys == {"fl_x", "fl_y", "cx", "cy", "w", "h", "k1", "k2", "k3", "p1", "p2"}

Internals(focal, principal, radial, tangential) ==
    [focal_length_px |-> focal, principal_point_px |-> principal,
     radial_distortion |-> radial, tangential_distortion |-> tangential]

\* A sensor with the image size the caller passes along with it.
SensorPool ==
    { [internals |-> Internals(10, <<20, 15>>, <<0, 0, 0>>, <<0, 0>>), image_size_px |-> <<40, 30>>],
      [internals |-> Internals(25, <<20, 15>>, <<0, 0, 0>>, <<0, 0>>), image_size_px |-> <<40, 30>>],
      [internals |-> Internals(10, <<20, 15>>, <<1, 0, 0>>, <<0, 0>>), image_size_px |-> <<87, 30>>] }

ExtractIntrinsics(sensor, image_size_px) ==
    [key \in IntrinsicsKeys |->
        CASE key = "fl_x" -> sensor.internals.focal_length_px
          [] key = "fl_y" -> sensor.internals.focal_length_px
          [] key = "cx" -> sensor.internals.principal_point_px[1]
          [] key = "cy" -> sensor.internals.principal_point_px[2]
          [] key = "w" -> IntTrunc(image_size_px[1])
          [] key = "h" -> IntTrunc(image_size_px[2])
          [] key = "k1" -> sensor.internals.radial_distortion[1]
          [] key = "k2" -> sensor.internals.radial_distortion[2]
          [] key = "k3" -> sensor.internals.radial_distortion[3]
          [] key = "p1" -> sensor.internals.tangential_distortion[1]
          [] key = "p2" -> sensor.internals.tangential_distortion[2]]

IntrinsicsPool == {ExtractIntrinsics(s, s.image_size_px) : s \in SensorPool}

(***************************************************************************)
(* extract_common_intrinsics                                               *)
(***************************************************************************)
\* common_intrinsics.get(key) != value; dict.get gives None for a missing
\* key, and no value of a record is None.
GetDiffers(common, key, value) == key \notin DOMAIN common \/ common[key] # value

\* del common_intrinsics[key], the KeyError of a missing key swallowed.
DelKey(common, key) == Restrict(common, (DOMAIN common) \ {key})

RECURSIVE ScanKeys(_, _, _)
\* for key, value in intrinsics.items(), over the keys not yet visited: the
\* test of one key does not depend on the deletion of another, so the order
\* of the visit does not matter.
ScanKeys(common, intrinsics, keys) ==
    IF keys = {} THEN common
    ELSE LET key == CHOOSE k \in keys : TRUE
         IN  ScanKeys(IF GetDiffers(common, key, intrinsics[key]) THEN DelKey(common, key) ELSE common,
                      intrinsics, keys \ {key})

\* The body of `for intrinsics in intrinsics_list` for one record.
ScanRecord(common, intrinsics) == ScanKeys(common, intrinsics, DOMAIN intrinsics)

RECURSIVE ScanFrom(_, _, _)
\* for intrinsics in intrinsics_list, from position j on.
ScanFrom(common, list, j) ==
    IF j > Len(list) THEN common
    ELSE ScanFrom(ScanRecord(common, list[j]), list, j + 1)

\* ExtractCommonIntrinsics with the scan stopping one record early.
ExtractCommonIntrinsicsSkipLast(list) ==
    IF Len(list) = 0 THEN [ret |-> EmptyDict, list |-> list]
    ELSE LET common == ScanFrom(list[1], SubSeq(list, 1, Len(list) - 1), 1)
         IN  [ret |-> common, list |-> [list EXCEPT ![1] = common]]

\* The call's return value and the records of the list after the call:
\* common_intrinsics is the first record itself, not a copy of it.
ExtractCommonIntrinsics(list) ==
    IF Len(list) = 0 THEN [ret |-> EmptyDict, list |-> list]
    ELSE LET common == ScanFrom(list[1], list, 1)
         IN  [ret |-> common, list |-> [list EXCEPT ![1] = common]]

(***************************************************************************)
(* get_camera_absolute_path                                                *)
(***************************************************************************)
Cwd == PurePath(TRUE, <<"cwd">>)

ProjectDir == PurePath(FALSE, <<"project">>)

\* a / b for a relative b.
JoinPath(a, b) == PurePath(a.absolute, a.parts \o b.parts)

\* Path.absolute()
Absolute(path) == IF path.absolute THEN path ELSE JoinPath(Cwd, path)

GetCameraAbsolutePath(camera, project_directory) ==
    LET path == camera.uri.path
    IN  IF ~path.absolute THEN JoinPath(Absolute(project_directory), path) ELSE path

\* str(path): the root, then the parts.
PathStr(path) == IF path.absolute THEN <<"/">> \o path.parts ELSE path.parts

(***************************************************************************)
(* make_transforms                                                         *)
(***************************************************************************)
SensorIds == {"A", "B"}

\* Calibrated cameras exist for ids 1 and 2 only; two records of one id
\* differ in sensor and position.
CalibratedPool ==
    { [id |-> 1, sensor_id |-> "A", position |-> <<15, 0, -25>>],
      [id |-> 1, sensor_id |-> "B", position |-> <<-7, 32, 0>>],
      [id |-> 2, sensor_id |-> "A", position |-> <<40, -19, 8>>],
      [id |-> 2, sensor_id |-> "B", position |-> <<0, 11, 99>>] }

\* opf_tools' get_transform_matrix, by its shape only: the camera's rotation
\* (here the identity) and position as a 4x4 matrix.
GetTransformMatrix(calibrated_camera, cam_flip) ==
    LET p == calibrated_camera.position
    IN  << <<10, 0, 0, p[1]>>, <<0, 10, 0, p[2]>>, <<0, 0, 10, p[3]>>, <<0, 0, 0, 10>> >>

\* .astype(int).tolist()
AsTypeInt(matrix) == [r \in 1..Len(matrix) |-> [c \in 1..Len(matrix[r]) |-> IntTrunc(matrix[r][c])]]

\* FirstMatch with the first record, not None, as next()'s default.
FirstMatchOrFirst(cameras, id) ==
    LET hits == {i \in 1..Len(cameras) : cameras[i].id = id}
    IN  IF hits = {} THEN (IF Len(cameras) = 0 THEN 0 ELSE 1)
        ELSE CHOOSE i \in hits : \A j \in hits : i <= j

\* FirstMatch taking the last record of the id instead of the first.
LastMatch(cameras, id) ==
    LET hits == {i \in 1..Len(cameras) : cameras[i].id = id}
    IN  IF hits = {} THEN 0 ELSE CHOOSE i \in hits : \A j \in hits : i >= j

\* next((camera for camera in cameras if camera.id == id), None)
FirstMatch(cameras, id) ==
    LET hits == {i \in 1..Len(cameras) : cameras[i].id = id}
    IN  IF hits = {} THEN 0 ELSE CHOOSE i \in hits : \A j \in hits : i <= j

\* the insertion-ordered dict: .values(), `in`, and [sensor_id]
TableValues(table) == [i \in 1..Len(table) |-> table[i].intrinsics]

TableHas(table, sensor_id) == \E i \in 1..Len(table) : table[i].id = sensor_id

TableGet(table, sensor_id) == table[CHOOSE i \in 1..Len(table) : table[i].id = sensor_id].intrinsics

\* The table after extract_common_intrinsics(list(table.values())) changed
\* the records the fresh list refers to.
TableWithValues(table, values) == [i \in 1..Len(table) |-> [id |-> table[i].id, intrinsics |-> values[i]]]

SensorTables ==
    UNION { {[i \in 1..Len(ids) |-> [id |-> ids[i], intrinsics |-> recs[i]]] :
                recs \in [1..Len(ids) -> IntrinsicsPool]} : ids \in InjectiveSeqs(SensorIds) }

Frame(transform_matrix, path, sensor_intrinsics, common) ==
    Merge([transform_matrix |-> transform_matrix, file_path |-> PathStr(path)],
          Restrict(sensor_intrinsics, {key \in DOMAIN sensor_intrinsics : key \notin DOMAIN common}))

Document(frame_list, common) ==
    Merge([camera_model |-> "OPENCV", frames |-> frame_list], common)

(***************************************************************************)
(* The calls. Each specification below starts one function on inputs drawn *)
(* from the pools and runs it to its end; the variables of the other       *)
(* functions stay idle.                                                    *)
(***************************************************************************)
FilterIdle == camera_list = <<>> /\ max_num_images = Unbounded /\ filter_ret = NotCalled

ReducerIdle ==
    /\ intrinsics_list = <<>> /\ intrinsics_before = <<>> /\ common_ret = NotCalled
    /\ permuted_list = <<>> /\ permuted_ret = NotCalled

TransformsIdle ==
    /\ camera_datas = <<>> /\ calibrated_cameras = <<>>
    /\ sensor_id_to_intrinsics = <<>> /\ sensors_before = <<>>
    /\ next_camera = 1 /\ frames = <<>>
    /\ common_bound = FALSE /\ common_intrinsics = EmptyDict
    /\ transforms_ret = NotCalled

\* ---- filter_cameras(camera_list, max_num_images)
InitFilter ==
    /\ pc = "filter_cameras"
    /\ camera_list \in SeqsUpTo(CameraPool, MaxCameraList)
    /\ max_num_images \in (-MinMaxNumImages)..(MaxCameraList + 1)
    /\ filter_ret = NotCalled
    /\ ReducerIdle /\ TransformsIdle

\* The same call on the counts a caller can mean: the sentinel, or a number
\* of cameras.
InitFilterCounts ==
    /\ pc = "filter_cameras"
    /\ camera_list \in SeqsUpTo(CameraPool, MaxCameraList)
    /\ max_num_images \in {Unbounded} \cup (0..(MaxCameraList + 1))
    /\ filter_ret = NotCalled
    /\ ReducerIdle /\ TransformsIdle

FilterCamerasCall ==
    /\ pc = "filter_cameras"
    /\ filter_ret' = FilterCameras(camera_list, max_num_images)
    /\ pc' = "done"
    /\ UNCHANGED <<camera_list, max_num_images, reducer_vars, transforms_vars>>

\* ---- extract_common_intrinsics(intrinsics_list), and the same call on
\* fresh copies of the records in another order
SmallKeys == {"fl_x", "w"}

SmallValues == {4, 10}

AnyDicts == UNION {[keys -> SmallValues] : keys \in SUBSET SmallKeys}

RecordPool == AnyDicts \cup IntrinsicsPool

Permutation(n) == {p \in [1..n -> 1..n] : \A i, j \in 1..n : i # j => p[i] # p[j]}

InitReducer ==
    /\ pc = "extract_common_intrinsics"
    /\ intrinsics_list \in SeqsUpTo(RecordPool, MaxRecords)
    /\ intrinsics_before = intrinsics_list
    /\ common_ret = NotCalled
    /\ permuted_list = <<>> /\ permuted_ret = NotCalled
    /\ FilterIdle /\ TransformsIdle

ExtractCommonIntrinsicsCall ==
    /\ pc = "extract_common_intrinsics"
    /\ \E p \in Permutation(Len(intrinsics_list)) :
          LET copies == [i \in 1..Len(intrinsics_list) |-> intrinsics_list[p[i]]]
              first == ExtractCommonIntrinsics(intrinsics_list)
              second == ExtractCommonIntrinsics(copies)
          IN  /\ intrinsics_list' = first.list
              /\ common_ret' = Return(first.ret)
              /\ permuted_list' = copies
              /\ permuted_ret' = Return(second.ret)
    /\ pc' = "done"
    /\ UNCHANGED <<intrinsics_before, filter_vars, transforms_vars>>

\* ---- make_transforms(camera_datas, calibrated_cameras, sensor_id_to_intrinsics, project_dir)
InitTransforms ==
    /\ pc = "make_transforms"
    /\ camera_datas \in SeqsUpTo(CameraPool, MaxCameraDatas)
    /\ calibrated_cameras \in SeqsUpTo(CalibratedPool, MaxCalibrated)
    /\ sensor_id_to_intrinsics \in SensorTables
    /\ sensors_before = sensor_id_to_intrinsics
    /\ next_camera = 1 /\ frames = <<>>
    /\ common_bound = FALSE /\ common_intrinsics = EmptyDict
    /\ transforms_ret = NotCalled
    /\ FilterIdle /\ ReducerIdle

\* One pass of the body of `for camera_data in camera_datas`.
MakeTransformsIteration ==
    /\ pc = "make_transforms"
    /\ next_camera <= Len(camera_datas)
    /\ LET camera_data == camera_datas[next_camera]
           path == GetCameraAbsolutePath(camera_data, ProjectDir)
           match == FirstMatch(calibrated_cameras, camera_data.id)
       IN  IF match = 0
           THEN /\ transforms_ret' = Raise("RuntimeError", camera_data.id)
                /\ pc' = "raised"
                /\ UNCHANGED <<sensor_id_to_intrinsics, common_bound, common_intrinsics,
                               frames, next_camera>>
           ELSE LET calibrated_camera == calibrated_cameras[match]
                    transform_matrix == AsTypeInt(GetTransformMatrix(calibrated_camera, FALSE))
                    reduced == ExtractCommonIntrinsics(TableValues(sensor_id_to_intrinsics))
                    table == TableWithValues(sensor_id_to_intrinsics, reduced.list)
                IN  /\ sensor_id_to_intrinsics' = table
                    /\ common_bound' = TRUE
                    /\ common_intrinsics' = reduced.ret
                    /\ IF TableHas(table, calibrated_camera.sensor_id)
                       THEN /\ frames' = Append(frames,
                                   Frame(transform_matrix, path,
                                         TableGet(table, calibrated_camera.sensor_id), reduced.ret))
                            /\ next_camera' = next_camera + 1
                            /\ UNCHANGED <<pc, transforms_ret>>
                       ELSE /\ transforms_ret' = Raise("KeyError", calibrated_camera.sensor_id)
                            /\ pc' = "raised"
                            /\ UNCHANGED <<frames, next_camera>>
    /\ UNCHANGED <<camera_datas, calibrated_cameras, sensors_before, filter_vars, reducer_vars>>

\* The return statement after the loop; it reads the loop's local
\* common_intrinsics, which no pass of the loop may have bound.
MakeTransformsReturn ==
    /\ pc = "make_transforms"
    /\ next_camera > Len(camera_datas)
    /\ IF common_bound
       THEN /\ transforms_ret' = Return(Document(frames, common_intrinsics))
            /\ pc' = "returned"
       ELSE /\ transforms_ret' = Raise("UnboundLocalError", "common_intrinsics")
            /\ pc' = "raised"
    /\ UNCHANGED <<camera_datas, calibrated_cameras, sensor_id_to_intrinsics, sensors_before,
                   next_camera, frames, common_bound, common_intrinsics, filter_vars, reducer_vars>>

NextFilter == FilterCamerasCall

NextReducer == ExtractCommonIntrinsicsCall

NextTransforms == MakeTransformsIteration \/ MakeTransformsReturn

SpecFilter == InitFilter /\ [][NextFilter]_vars

SpecFilterCounts == InitFilterCounts /\ [][NextFilter]_vars

SpecReducer == InitReducer /\ [][NextReducer]_vars

SpecTransforms == InitTransforms /\ [][NextTransforms]_vars

Init == InitFilter \/ InitReducer \/ InitTransforms

Next == FilterCamerasCall \/ ExtractCommonIntrinsicsCall \/ MakeTransformsIteration \/ MakeTransformsReturn

Spec == Init /\ [][Next]_vars

(***************************************************************************)
(* Properties.                                                             *)
(***************************************************************************)
\* Camera i of camera_datas has a calibrated record with the same id.
HasCalibrated(i) == \E m \in 1..Len(calibrated_cameras) : calibrated_cameras[m].id = camera_datas[i].id

\* m is the position of the first calibrated record with camera i's id.
IsFirstCalibrated(m, i) ==
    /\ calibrated_cameras[m].id = camera_datas[i].id
    /\ \A l \in 1..(m - 1) : calibrated_cameras[l].id # camera_datas[i].id

\* The sensor id of camera i's matched record is in the table.
SensorKnown(i) ==
    \A m \in 1..Len(calibrated_cameras) :
        IsFirstCalibrated(m, i) =>
            \E t \in 1..Len(sensors_before) : sensors_before[t].id = calibrated_cameras[m].sensor_id

\* C1: when every camera is calibrated and every matched sensor is in the
\* table, each frame of the returned document carries, with the sensor's
\* value, every intrinsics key that its sensor's record had at the call and
\* that is not at the top level of the document.
C1_FramesKeepUnsharedKeys ==
    (/\ pc = "returned"
     /\ \A i \in 1..Len(camera_datas) : HasCalibrated(i) /\ SensorKnown(i))
    => \A i \in 1..Len(camera_datas) : \A m \in 1..Len(calibrated_cameras) :
          IsFirstCalibrated(m, i) =>
             LET doc == transforms_ret.value
                 record == TableGet(sensors_before, calibrated_cameras[m].sensor_id)
             IN  /\ i <= Len(doc.frames)
                 /\ \A key \in DOMAIN record :
                       key \notin DOMAIN doc =>
                          key \in DOMAIN doc.frames[i] /\ doc.frames[i][key] = record[key]

\* C2: after extract_common_intrinsics every record of the list has exactly
\* the keys and values it had before the call.
C2_InputNotMutated == pc = "done" => intrinsics_list = intrinsics_before

\* C3: make_transforms on an empty camera list returns a document with no
\* frame and no intrinsics key at the top level.
C3_EmptyCameraListReturns ==
    (pc \in {"returned", "raised"} /\ camera_datas = <<>>)
    => /\ transforms_ret.kind = "return"
       /\ transforms_ret.value.frames = <<>>
       /\ (DOMAIN transforms_ret.value) \cap IntrinsicsKeys = {}

\* C4: if camera i is the first camera without a calibrated record and the
\* matched sensor of every camera before it is in the table, make_transforms
\* ends with the error naming camera i's id and returns nothing.
C4_MissingCalibrationRaises ==
    pc \in {"returned", "raised"}
    => \A i \in 1..Len(camera_datas) :
          (/\ ~HasCalibrated(i)
           /\ \A j \in 1..(i - 1) : HasCalibrated(j) /\ SensorKnown(j))
          => /\ pc = "raised"
             /\ transforms_ret.kind = "raise"
             /\ transforms_ret.error = "RuntimeError"
             /\ transforms_ret.what = camera_datas[i].id

\* C4 witness: the error is raised for a later camera, after a frame was built.
C4_Witness ==
    /\ pc = "raised"
    /\ transforms_ret.error = "RuntimeError"
    /\ Len(frames) >= 1
    /\ ~HasCalibrated(Len(frames) + 1)

\* The call is one that filters: max_num_images is not the sentinel and is
\* below the number of cameras.
FilterSelects == max_num_images # Unbounded /\ max_num_images < Len(camera_list)

\* out holds elements of in taken at ascending positions.
IsAscendingSelection(out, in) ==
    \E pos \in [1..Len(out) -> 1..Len(in)] :
        /\ \A i, j \in 1..Len(out) : i < j => pos[i] <= pos[j]
        /\ \A i \in 1..Len(out) : out[i] = in[pos[i]]

\* C5: a filtering call returns exactly max_num_images cameras, elements of
\* the input at ascending positions.
C5_SelectsMaxCountInOrder ==
    (pc = "done" /\ FilterSelects)
    => /\ filter_ret.kind = "return"
       /\ Len(filter_ret.value) = max_num_images
       /\ IsAscendingSelection(filter_ret.value, camera_list)

\* C6: a filtering call selects the input's first camera first and its last
\* camera last.
C6_SelectsFirstAndLast ==
    (pc = "done" /\ FilterSelects)
    => /\ filter_ret.kind = "return"
       /\ Len(filter_ret.value) > 0 =>
             /\ filter_ret.value[1] = camera_list[1]
             /\ filter_ret.value[Len(filter_ret.value)] = camera_list[Len(camera_list)]

\* C7: with max_num_images zero or negative, the sentinel excepted,
\* filter_cameras returns the input cameras unchanged.
C7_InvalidMaxCountNoFiltering ==
    (pc = "done" /\ max_num_images <= 0 /\ max_num_images # Unbounded)
    => /\ filter_ret.kind = "return"
       /\ filter_ret.value = camera_list

\* C8: for a non-empty list the result holds key k with value v exactly when
\* every record, as it was before the call, holds k with v.
C8_ResultIsCommonPairs ==
    (pc = "done" /\ Len(intrinsics_before) > 0)
    => LET n == Len(intrinsics_before)
           keys == UNION {DOMAIN intrinsics_before[i] : i \in 1..n}
           values == UNION {{intrinsics_before[i][k] : k \in DOMAIN intrinsics_before[i]} : i \in 1..n}
       IN  /\ DOMAIN common_ret.value \subseteq keys
           /\ \A k \in keys : \A v \in values :
                 (k \in DOMAIN common_ret.value /\ common_ret.value[k] = v)
                 <=> (\A i \in 1..n : k \in DOMAIN intrinsics_before[i] /\ intrinsics_before[i][k] = v)

\* Every record of the call is an IntrinsicsRecord: its keys are the fixed set.
AllIntrinsicsRecords == \A i \in 1..Len(intrinsics_before) : DOMAIN intrinsics_before[i] = IntrinsicsKeys

\* C9: on IntrinsicsRecords the result does not depend on the order of the
\* list; an empty list gives an empty mapping; a list holding one record
\* twice gives that record.
C9_PermutationInvariant ==
    pc = "done"
    => /\ AllIntrinsicsRecords => common_ret.value = permuted_ret.value
       /\ Len(intrinsics_before) = 0 => common_ret.value = EmptyDict
       /\ (Len(intrinsics_before) = 2 /\ intrinsics_before[1] = intrinsics_before[2])
             => common_ret.value = intrinsics_before[1]

\* C9 witness: three IntrinsicsRecords, really reordered, the first of each
\* order different, with some but not all keys shared.
C9_Witness ==
    /\ pc = "done"
    /\ AllIntrinsicsRecords
    /\ Len(intrinsics_before) = 3
    /\ permuted_list[1] # intrinsics_before[1]
    /\ common_ret.value # EmptyDict
    /\ common_ret.value # intrinsics_before[1]
    /\ common_ret.value # permuted_list[1]

\* C10: when every camera is calibrated the returned document has one frame
\* per camera, in input order, with the camera's resolved path and the
\* transform of the first calibrated record of the camera's id.
C10_FramesFollowCameras ==
    (pc = "returned" /\ \A i \in 1..Len(camera_datas) : HasCalibrated(i))
    => LET doc == transforms_ret.value
       IN  /\ Len(doc.frames) = Len(camera_datas)
           /\ \A i \in 1..Len(camera_datas) :
                 /\ doc.frames[i].file_path = PathStr(GetCameraAbsolutePath(camera_datas[i], ProjectDir))
                 /\ \E m \in 1..Len(calibrated_cameras) :
                       /\ IsFirstCalibrated(m, i)
                       /\ doc.frames[i].transform_matrix
                             = AsTypeInt(GetTransformMatrix(calibrated_cameras[m], FALSE))

\* C10 witness: a document of two frames whose calibrated records are listed
\* in the opposite order of the cameras.
C10_Witness ==
    /\ pc = "returned"
    /\ Len(camera_datas) = 2
    /\ Len(transforms_ret.value.frames) = 2
    /\ camera_datas[1].id # camera_datas[2].id
    /\ calibrated_cameras[1].id = camera_datas[2].id
    /\ calibrated_cameras[2].id = camera_datas[1].id

====
